---- MODULE Spec2Model ----
(***************************************************************************)
(* Model of the esc_decode pipeline (src/esc_decode/process.py,            *)
(* reg_desc.py, __main__.py): time-gap aggregation of SPI samples, byte    *)
(* assembly, ESC command decoding, register description and presentation.  *)
(***************************************************************************)
EXTENDS Integers, Sequences, FiniteSets, TLC

(***************************************************************************)
(* Bounds of the model.                                                    *)
(***************************************************************************)
MaxRows == 4
MaxThreshold == 1
MaxGroupLen == 4
MaxGroups == 2
MaxPacketLen == 5

\* Timestamps (ns) offered to the aggregator: gaps below, at and above 1 us.
Times == {0, 500, 1000, 2000, 3500}

\* Thresholds (us) handed to aggregate_stream, negative and zero included.
Thresholds == (0 - 1) .. MaxThreshold

VARIABLES
    \* aggregate_stream
    rows,        \* samples consumed so far, each [Id, time]
    threshold,   \* threshold argument, in microseconds
    group,       \* the open group
    last_time,   \* timestamp of the previous sample, NoneTime before the first
    emitted,     \* groups yielded so far
    agg_pc,      \* "run" inside the for loop, "done" after exhaustion
    \* packet_transform -> ESC_raw_packet_to_ESC_packet -> get_packet_desc -> main loop
    pc,          \* stage that runs next for the item in flight
    cur_group,   \* the group last pulled from the aggregator
    raw,         \* the Result packet_transform yielded for it
    pkt,         \* the Result ESC_raw_packet_to_ESC_packet returned for raw
    desc,        \* the Result get_packet_desc returned for pkt
    ignore_addrs, \* the --ignore_addrs argument
    out,         \* what the main loop printed for desc
    pulled,      \* groups pulled from the aggregator so far
    log          \* the kind of outcome the main loop received for each group so far

aggVars == <<rows, threshold, group, last_time, emitted, agg_pc>>

pipeVars == <<pc, cur_group, raw, pkt, desc, ignore_addrs, out, pulled, log>>

vars == <<rows, threshold, group, last_time, emitted, agg_pc,
          pc, cur_group, raw, pkt, desc, ignore_addrs, out, pulled, log>>

(***************************************************************************)
(* Results (expression.Result) and exceptions                              *)
(***************************************************************************)
Ok(v) == [ok |-> TRUE, val |-> v]

Error(e) == [ok |-> FALSE, err |-> e]

Exc(cls, msg) == [cls |-> cls, msg |-> msg]

\* str(exception): the message the exception was constructed with.
ExcStr(e) == e.msg

NoItem == [ok |-> FALSE, err |-> Exc("none", "none")]

NoOut == [kind |-> "none", text |-> <<>>]

\* Nothing is printed for the item.
Silence == [kind |-> "silence", text |-> <<>>]

(***************************************************************************)
(* Python built-ins used by the pipeline                                   *)
(***************************************************************************)
\* b[lo:hi] and b[lo:] on a byte sequence (0-based, clamped to the length).
PySlice(b, lo, hi) == SubSeq(b, lo + 1, IF hi < Len(b) THEN hi ELSE Len(b))

PySliceFrom(b, lo) == SubSeq(b, lo + 1, Len(b))

\* int.from_bytes(b): byteorder defaults to "big".
RECURSIVE int_from_bytes(_)
int_from_bytes(b) ==
    IF b = <<>> THEN 0
    ELSE int_from_bytes(SubSeq(b, 1, Len(b) - 1)) * 256 + b[Len(b)]

HexLower == <<"0", "1", "2", "3", "4", "5", "6", "7",
              "8", "9", "a", "b", "c", "d", "e", "f">>

HexUpper == <<"0", "1", "2", "3", "4", "5", "6", "7",
              "8", "9", "A", "B", "C", "D", "E", "F">>

\* The value of one character as a base-16 digit; -1 when it is no digit.
DigitVal(c) ==
    IF \E i \in 1 .. 16 : HexLower[i] = c
      THEN (CHOOSE i \in 1 .. 16 : HexLower[i] = c) - 1
      ELSE IF \E i \in 1 .. 16 : HexUpper[i] = c
             THEN (CHOOSE i \in 1 .. 16 : HexUpper[i] = c) - 1
             ELSE 0 - 1

RECURSIVE DigitsValue(_, _)
DigitsValue(s, base) ==
    IF s = <<>> THEN 0
    ELSE DigitsValue(SubSeq(s, 1, Len(s) - 1), base) * base + DigitVal(s[Len(s)])

\* int(s) and int(s, 16) on a string of digit characters; ok = FALSE stands
\* for the ValueError raised for an empty string or a character that is no
\* digit of the base.
int_base10(s) ==
    IF s = <<>> \/ \E i \in 1 .. Len(s) : DigitVal(s[i]) < 0 \/ DigitVal(s[i]) > 9
      THEN [ok |-> FALSE, val |-> 0]
      ELSE [ok |-> TRUE, val |-> DigitsValue(s, 10)]

int_base16(s) ==
    IF s = <<>> \/ \E i \in 1 .. Len(s) : DigitVal(s[i]) < 0
      THEN [ok |-> FALSE, val |-> 0]
      ELSE [ok |-> TRUE, val |-> DigitsValue(s, 16)]

\* Digits of n in base 16, most significant first, as one string.
RECURSIVE HexStr(_, _)
HexStr(n, digits) ==
    IF n < 16 THEN digits[n + 1]
    ELSE HexStr(n \div 16, digits) \o digits[(n % 16) + 1]

RECURSIVE HexLen(_)
HexLen(n) == IF n < 16 THEN 1 ELSE 1 + HexLen(n \div 16)

RECURSIVE Zeros(_)
Zeros(k) == IF k <= 0 THEN "" ELSE "0" \o Zeros(k - 1)

\* hex(n), f"{n:X}", f"{n:08X}" and bytes.hex()
PyHex(n) == "0x" \o HexStr(n, HexLower)

FmtX(n) == HexStr(n, HexUpper)

Fmt08X(n) == Zeros(8 - HexLen(n)) \o HexStr(n, HexUpper)

RECURSIVE BytesHex(_)
BytesHex(b) ==
    IF b = <<>> THEN ""
    ELSE HexLower[(Head(b) \div 16) + 1] \o HexLower[(Head(b) % 16) + 1]
           \o BytesHex(Tail(b))

\* value & (1 << i), as 0 or 1
Bit(value, i) == (value \div (2 ^ i)) % 2

(***************************************************************************)
(* packet_transform                                                        *)
(***************************************************************************)
EmptyFieldError == Exc("ValueError", "Empty MISO or MOSI value at group")

InvalidLiteralError == Exc("ValueError", "invalid literal for int() with base 16")

ByteRangeError == Exc("ValueError", "bytes must be in range(0, 256)")

\* bytes(list): ValueError unless every element is in 0..255.
BytesOk(l) == \A i \in 1 .. Len(l) : 0 <= l[i] /\ l[i] <= 255

ParseField_decimal(str) == int_base10(str)

\* int(miso_str, 16) and int(mosi_str, 16), process.py:70-71
ParseField(str) == int_base16(str)

\* The body of the for loop over packet_raws for one group: the rows are
\* parsed in order, the first failure ends the group with Error.
RECURSIVE TransformRows(_, _, _)
TransformRows(packet_raw, miso_list, mosi_list) ==
    IF packet_raw = <<>>
      THEN IF ~BytesOk(miso_list) \/ ~BytesOk(mosi_list)
             THEN Error(ByteRangeError)
             ELSE Ok([MISOs |-> miso_list, MOSIs |-> mosi_list])
      ELSE LET row == Head(packet_raw) IN
           IF row.MISO = <<>> \/ row.MOSI = <<>>
             THEN Error(EmptyFieldError)
             ELSE IF ~ParseField(row.MISO).ok \/ ~ParseField(row.MOSI).ok
                    THEN Error(InvalidLiteralError)
                    ELSE TransformRows(Tail(packet_raw),
                                       Append(miso_list, ParseField(row.MISO).val),
                                       Append(mosi_list, ParseField(row.MOSI).val))

packet_transform(packet_raw) == TransformRows(packet_raw, <<>>, <<>>)

(***************************************************************************)
(* ESC_raw_packet_to_ESC_packet                                            *)
(***************************************************************************)
ESC_action_shifted ==
    (0 :> "NOP") @@ (2 :> "READ") @@ (3 :> "READ_WAIT") @@ (4 :> "WRITE")
      @@ (5 :> "ADDR_EXT")

\* class ESC_action(Enum)
ESC_action ==
    (0 :> "NOP") @@ (2 :> "READ") @@ (3 :> "READ_WAIT") @@ (4 :> "WRITE")
      @@ (6 :> "ADDR_EXT")

EmptyException == Exc("EmptyException", "")

InvalidActionError == Exc("ValueError", "Invalid ESC action in MOSI data")

TooShortError ==
    Exc("ValueError", "Packet too short, may lose data during sampling")

UnsupportedActionError(m_act) ==
    Exc("NotImplementedError", "Unsupported ESC action: ESC_action." \o m_act)

\* The bytes kept in wire order.
endian_invert_wire(bytes_in) == bytes_in

\* bytes_in[::-1]
RECURSIVE endian_invert(_)
endian_invert(bytes_in) ==
    IF bytes_in = <<>> THEN <<>>
    ELSE Append(endian_invert(Tail(bytes_in)), Head(bytes_in))

\* raw_packet["MOSIs"][0:2][1] & 0b111 (the caller has checked the length)
ActionCode(mosis) == PySlice(mosis, 0, 2)[2] % 8

HeaderAddr_little(mosis) == (mosis[1] + mosis[2] * 256) \div 8

\* int.from_bytes(raw_packet["MOSIs"][0:2]) >> 3
HeaderAddr(mosis) == int_from_bytes(PySlice(mosis, 0, 2)) \div 8

\* Offsets of the slave's response in MISOs, process.py:150 and 153
ReadOffset == 2

ReadWaitOffset_unskipped == ReadOffset

ReadWaitOffset == 3

WriteOffset == 2

ESC_packet(m_act, m_addr, m_data, s_resp_val, al_intp_req_val) ==
    [m_act |-> m_act, m_addr |-> m_addr, m_data |-> m_data,
     s_resp_val |-> s_resp_val, al_intp_req_val |-> al_intp_req_val]

\* The match on m_act with the assignments to m_data commented out in
\* process.py:149 and 152 in force.
DecodePayload_both(m_act, m_addr, raw_packet) ==
    LET al_intp_req_val == endian_invert(PySlice(raw_packet.MISOs, 0, 2)) IN
    CASE m_act = "READ" ->
           Ok(ESC_packet(m_act, m_addr,
                         endian_invert(PySliceFrom(raw_packet.MOSIs, 2)),
                         endian_invert(PySliceFrom(raw_packet.MISOs, 2)),
                         al_intp_req_val))
      [] m_act = "READ_WAIT" ->
           Ok(ESC_packet(m_act, m_addr,
                         endian_invert(PySliceFrom(raw_packet.MOSIs, 3)),
                         endian_invert(PySliceFrom(raw_packet.MISOs, 3)),
                         al_intp_req_val))
      [] m_act = "WRITE" ->
           Ok(ESC_packet(m_act, m_addr,
                         endian_invert(PySliceFrom(raw_packet.MOSIs, 2)),
                         <<>>, al_intp_req_val))
      [] OTHER -> Error(UnsupportedActionError(m_act))

\* The match on m_act, process.py:144-169
DecodePayload(m_act, m_addr, raw_packet) ==
    LET al_intp_req_val == endian_invert(PySlice(raw_packet.MISOs, 0, 2)) IN
    CASE m_act = "READ" ->
           Ok(ESC_packet(m_act, m_addr, <<>>,
                         endian_invert(PySliceFrom(raw_packet.MISOs, ReadOffset)),
                         al_intp_req_val))
      [] m_act = "READ_WAIT" ->
           Ok(ESC_packet(m_act, m_addr, <<>>,
                         endian_invert(PySliceFrom(raw_packet.MISOs, ReadWaitOffset)),
                         al_intp_req_val))
      [] m_act = "WRITE" ->
           Ok(ESC_packet(m_act, m_addr,
                         endian_invert(PySliceFrom(raw_packet.MOSIs, WriteOffset)),
                         <<>>, al_intp_req_val))
      [] OTHER -> Error(UnsupportedActionError(m_act))

\* The decoder with the ignore-set consulted before the action code is
\* validated.
ESC_raw_packet_to_ESC_packet_prefiltered(rst_raw_packet, ignore) ==
    IF ~rst_raw_packet.ok THEN rst_raw_packet
    ELSE LET raw_packet == rst_raw_packet.val IN
         IF Len(PySlice(raw_packet.MOSIs, 0, 2)) < 2
           THEN Error(TooShortError)
           ELSE IF HeaderAddr(raw_packet.MOSIs) \in ignore
                  THEN Error(EmptyException)
                  ELSE IF ActionCode(raw_packet.MOSIs) \notin DOMAIN ESC_action
                         THEN Error(InvalidActionError)
                         ELSE DecodePayload(ESC_action[ActionCode(raw_packet.MOSIs)],
                                            HeaderAddr(raw_packet.MOSIs),
                                            raw_packet)

ESC_raw_packet_to_ESC_packet(rst_raw_packet, ignore) ==
    IF ~rst_raw_packet.ok THEN rst_raw_packet
    ELSE LET raw_packet == rst_raw_packet.val IN
         IF Len(PySlice(raw_packet.MOSIs, 0, 2)) < 2
           THEN Error(TooShortError)
           ELSE IF ActionCode(raw_packet.MOSIs) \notin DOMAIN ESC_action
                  THEN Error(InvalidActionError)
                  ELSE LET m_act == ESC_action[ActionCode(raw_packet.MOSIs)]
                           m_addr == HeaderAddr(raw_packet.MOSIs)
                       IN IF m_addr \in ignore
                            THEN Error(EmptyException)
                            ELSE DecodePayload(m_act, m_addr, raw_packet)

(***************************************************************************)
(* reg_desc.py: the per-register decode functions.  Each yields            *)
(* [ok, text]; ok = FALSE stands for the AssertionError of its assert.     *)
(***************************************************************************)
Described(text) == [ok |-> TRUE, text |-> text]

AssertionError == [ok |-> FALSE, text |-> "AssertionError"]

ByteMax == 255

WordMax == 65535

\* 0 <= value <= 0xFFFFFFFF, stated on the upper half of value
WithinDword(value) == 0 <= value /\ value \div (WordMax + 1) <= WordMax

OnOff(flag) == IF flag = 1 THEN "Enabled" ELSE "Disabled"

LedDesc(led_code, off, once) ==
    IF 2 <= led_code /\ led_code <= 12
      THEN "Flash " \o ToString(led_code) \o "x"
      ELSE CASE led_code = 0 -> off
             [] led_code = 1 -> once
             [] led_code = 13 -> "Blinking (PreOp)"
             [] led_code = 14 -> "Flickering (Bootstrap)"
             [] led_code = 15 -> "On (Operational)"
             [] OTHER -> "Unknown"

decode_run_led_override(value) ==
    IF ~(0 <= value /\ value <= ByteMax) THEN AssertionError
    ELSE LET led_code == value % 16
             enable_override == Bit(value, 4)
         IN Described("RUN LED Override: LED code=0x" \o FmtX(led_code) \o " ("
                        \o LedDesc(led_code, "Off (Init)", "Flash 1x (SafeOp)")
                        \o "), Override=" \o OnOff(enable_override) \o " ")

decode_err_led_override(value) ==
    IF ~(0 <= value /\ value <= ByteMax) THEN AssertionError
    ELSE LET led_code == value % 16
             enable_override == Bit(value, 4)
         IN Described("ERR LED Override: LED code=0x" \o FmtX(led_code) \o " ("
                        \o LedDesc(led_code, "Off", "Flash 1x")
                        \o "), Override=" \o OnOff(enable_override) \o " ")

decode_al_status_code(value) ==
    IF ~(0 <= value /\ value <= ByteMax) THEN AssertionError
    ELSE Described("AL status code:" \o ToString(value))

decode_pdi_control(value) ==
    IF ~(0 <= value /\ value <= WordMax) THEN AssertionError
    ELSE LET pdi_mode == value % 4
             pdi_mode_desc == CASE pdi_mode = 0 -> "SPI"
                                [] pdi_mode = 1 -> "I2C"
                                [] pdi_mode = 2 -> "Reserved"
                                [] pdi_mode = 3 -> "Digital I/O"
                                [] OTHER -> "Unknown"
         IN Described("PDI Control: Mode=" \o pdi_mode_desc \o " (0x"
                        \o FmtX(pdi_mode) \o ")")

\* The texts of bits 0..7 of the AL Event Request register.
AlEventNames ==
    <<"AL Control Register has been written, ",
      "At least one change on DC Latch Inputs, ",
      "DC SYNC0, ",
      "DC SYNC1, ",
      "At least one SyncManager changed, ",
      "EEPROM command pending, ",
      "Has expired, ",
      "reserved bit set, ">>

\* Bits i..23 of value, in ascending order
RECURSIVE AlEventBits(_, _)
AlEventBits(value, i) ==
    IF i >= 24 THEN ""
    ELSE (IF Bit(value, i) = 0 THEN ""
          ELSE IF i < 8 THEN AlEventNames[i + 1]
          ELSE "SyncManager " \o ToString(i - 8) \o " interrupt pending, ")
           \o AlEventBits(value, i + 1)

decode_al_event_req(value) ==
    IF ~WithinDword(value) THEN AssertionError
    ELSE Described(AlEventBits(value, 0))

\* ', '.join of the "SMi Active" flags of bits i..7
RECURSIVE ActiveSMs(_, _, _)
ActiveSMs(value, i, first) ==
    IF i >= 8 THEN ""
    ELSE IF Bit(value, i) = 0 THEN ActiveSMs(value, i + 1, first)
    ELSE (IF first THEN "" ELSE ", ") \o "SM" \o ToString(i) \o " Active"
           \o ActiveSMs(value, i + 1, FALSE)

decode_sync_manager_status(value) ==
    IF ~(0 <= value /\ value <= ByteMax) THEN AssertionError
    ELSE Described("Sync Manager Status: "
                     \o (IF value = 0 THEN "No Active SMs"
                         ELSE ActiveSMs(value, 0, TRUE)))

decode_watchdog_status(value) ==
    IF ~(0 <= value /\ value <= ByteMax) THEN AssertionError
    ELSE CASE value = 0 -> Described("Watchdog Status: No Error")
           [] value = 1 -> Described("Watchdog Status: PDI Watchdog Triggered")
           [] value = 2 ->
                Described("Watchdog Status: Sync Manager Watchdog Triggered")
           [] OTHER -> Described("Watchdog Status: Unknown (0x" \o FmtX(value) \o ")")

decode_ch2_1(value) == Described("Identification Register: 0x" \o Fmt08X(value))

decode_ch2_2(value) == Described("Revision Register: 0x" \o Fmt08X(value))

al_state_map(state) ==
    CASE state = 1 -> "Init"
      [] state = 2 -> "Pre-Operational"
      [] state = 3 -> "Bootstrap"
      [] state = 4 -> "Safe-Operational"
      [] state = 8 -> "Operational"
      [] OTHER -> "Unknown"

decode_ch2_20(value) ==
    LET state == value % 16 IN
    Described("AL Control: req state=" \o al_state_map(state) \o " (0x"
                \o FmtX(state) \o "), Error Ind Ack="
                \o ToString(Bit(value, 4) * 16) \o ", Device ID req="
                \o ToString(Bit(value, 5) * 32))

decode_ch2_21(value) ==
    LET state == value % 16 IN
    Described("State=" \o al_state_map(state) \o " (0x" \o FmtX(state)
                \o "), Error Ind =" \o ToString(Bit(value, 4) * 16)
                \o ", Device ID loaded=" \o ToString(Bit(value, 5) * 32) \o ", ")

REG_ADDR_TO_NAME ==
    (\h0000 :> "Type")
      @@ (\h0001 :> "Revision")
      @@ (\h0002 :> "Build (low)")
      @@ (\h0003 :> "Build (high)")
      @@ (\h0004 :> "FMMUs supported")
      @@ (\h0005 :> "SyncManagers supported")
      @@ (\h0006 :> "RAM Size")
      @@ (\h0007 :> "Port Descriptor")
      @@ (\h0008 :> "ESC Features supported (low)")
      @@ (\h0009 :> "ESC Features supported (high)")
      @@ (\h0010 :> "Configured Station Address (low)")
      @@ (\h0011 :> "Configured Station Address (high)")
      @@ (\h0012 :> "Configured Station Alias (low)")
      @@ (\h0013 :> "Configured Station Alias (high)")
      @@ (\h0020 :> "Register Write Enable")
      @@ (\h0021 :> "Register Write Protection")
      @@ (\h0030 :> "ESC Write Enable")
      @@ (\h0031 :> "ESC Write Protection")
      @@ (\h0040 :> "ESC Reset ECAT")
      @@ (\h0041 :> "ESC Reset PDI")
      @@ (\h0100 :> "ESC DL Control (low)")
      @@ (\h0101 :> "ESC DL Control")
      @@ (\h0102 :> "ESC DL Control")
      @@ (\h0103 :> "ESC DL Control (high)")
      @@ (\h0108 :> "Physical Read/Write Offset (low)")
      @@ (\h0109 :> "Physical Read/Write Offset (high)")
      @@ (\h0110 :> "ESC DL Status (low)")
      @@ (\h0111 :> "ESC DL Status (high)")
      @@ (\h0120 :> "AL Control (low)")
      @@ (\h0121 :> "AL Control (high)")
      @@ (\h0130 :> "AL Status (low)")
      @@ (\h0131 :> "AL Status (high)")
      @@ (\h0134 :> "AL Status Code (low)")
      @@ (\h0135 :> "AL Status Code (high)")
      @@ (\h0138 :> "RUN LED Override")
      @@ (\h0139 :> "ERR LED Override")
      @@ (\h0140 :> "PDI Control")
      @@ (\h0141 :> "ESC Configuration")
      @@ (\h014E :> "PDI Information (low)")
      @@ (\h014F :> "PDI Information (high)")
      @@ (\h0150 :> "PDI Configuration (low)")
      @@ (\h0151 :> "PDI Configuration")
      @@ (\h0152 :> "PDI Configuration")
      @@ (\h0153 :> "PDI Configuration (high)")
      @@ (\h0200 :> "ECAT Event Mask (low)")
      @@ (\h0201 :> "ECAT Event Mask (high)")
      @@ (\h0204 :> "PDI AL Event Mask (low)")
      @@ (\h0205 :> "PDI AL Event Mask")
      @@ (\h0206 :> "PDI AL Event Mask")
      @@ (\h0207 :> "PDI AL Event Mask (high)")
      @@ (\h0210 :> "ECAT Event Request (low)")
      @@ (\h0211 :> "ECAT Event Request (high)")
      @@ (\h0220 :> "AL Event Request (low)")
      @@ (\h0221 :> "AL Event Request")
      @@ (\h0222 :> "AL Event Request")
      @@ (\h0223 :> "AL Event Request (high)")
      @@ (\h0300 :> "RX Error Counter (0)")
      @@ (\h0301 :> "RX Error Counter (1)")
      @@ (\h0302 :> "RX Error Counter (2)")
      @@ (\h0303 :> "RX Error Counter (3)")
      @@ (\h0304 :> "RX Error Counter (4)")
      @@ (\h0305 :> "RX Error Counter (5)")
      @@ (\h0306 :> "RX Error Counter (6)")
      @@ (\h0307 :> "RX Error Counter (7)")
      @@ (\h0308 :> "Forwarded RX Error Counter (0)")
      @@ (\h0309 :> "Forwarded RX Error Counter (1)")
      @@ (\h030A :> "Forwarded RX Error Counter (2)")
      @@ (\h030B :> "Forwarded RX Error Counter (3)")
      @@ (\h030C :> "ECAT Processing Unit Error Counter")
      @@ (\h030D :> "PDI Error Counter")
      @@ (\h030E :> "PDI Error Code (low)")
      @@ (\h030F :> "PDI Error Code (high)")
      @@ (\h0310 :> "Lost Link Counter (0)")
      @@ (\h0311 :> "Lost Link Counter (1)")
      @@ (\h0312 :> "Lost Link Counter (2)")
      @@ (\h0313 :> "Lost Link Counter (3)")
      @@ (\h0400 :> "Watchdog Divider (low)")
      @@ (\h0401 :> "Watchdog Divider (high)")
      @@ (\h0410 :> "Watchdog Time PDI (low)")
      @@ (\h0411 :> "Watchdog Time PDI (high)")
      @@ (\h0420 :> "Watchdog Time Process Data (low)")
      @@ (\h0421 :> "Watchdog Time Process Data (high)")
      @@ (\h0440 :> "Watchdog Status Process Data (low)")
      @@ (\h0441 :> "Watchdog Status Process Data (high)")
      @@ (\h0442 :> "Watchdog Counter Process Data")
      @@ (\h0443 :> "Watchdog Counter PDI")
      @@ (\h0500 :> "SII EEPROM Interface (0)")
      @@ (\h0501 :> "SII EEPROM Interface (1)")
      @@ (\h0502 :> "SII EEPROM Interface (2)")
      @@ (\h0503 :> "SII EEPROM Interface (3)")
      @@ (\h0504 :> "SII EEPROM Interface (4)")
      @@ (\h0505 :> "SII EEPROM Interface (5)")
      @@ (\h0506 :> "SII EEPROM Interface (6)")
      @@ (\h0507 :> "SII EEPROM Interface (7)")
      @@ (\h0508 :> "SII EEPROM Interface (8)")
      @@ (\h0509 :> "SII EEPROM Interface (9)")
      @@ (\h050A :> "SII EEPROM Interface (10)")
      @@ (\h050B :> "SII EEPROM Interface (11)")
      @@ (\h050C :> "SII EEPROM Interface (12)")
      @@ (\h050D :> "SII EEPROM Interface (13)")
      @@ (\h050E :> "SII EEPROM Interface (14)")
      @@ (\h050F :> "SII EEPROM Interface (15)")
      @@ (\h0510 :> "MII Management Interface (0)")
      @@ (\h0511 :> "MII Management Interface (1)")
      @@ (\h0512 :> "MII Management Interface (2)")
      @@ (\h0513 :> "MII Management Interface (3)")
      @@ (\h0514 :> "MII Management Interface (4)")
      @@ (\h0515 :> "MII Management Interface (5)")
      @@ (\h0516 :> "MII Management Interface (6)")
      @@ (\h0517 :> "MII Management Interface (7)")
      @@ (\h0518 :> "MII Management Interface (8)")
      @@ (\h0519 :> "MII Management Interface (9)")
      @@ (\h051A :> "MII Management Interface (10)")
      @@ (\h051B :> "MII Management Interface (11)")
      @@ (\h0600 :> "FMMU")
      @@ (\h0800 :> "SyncManager")
      @@ (\h0900 :> "Distributed Clocks")
      @@ (\h0E00 :> "ESC-specific registers")
      @@ (\h0F00 :> "Digital I/O Output Data (0)")
      @@ (\h0F01 :> "Digital I/O Output Data (1)")
      @@ (\h0F02 :> "Digital I/O Output Data (2)")
      @@ (\h0F03 :> "Digital I/O Output Data (3)")
      @@ (\h0F10 :> "General Purpose Outputs (0)")
      @@ (\h0F11 :> "General Purpose Outputs (1)")
      @@ (\h0F12 :> "General Purpose Outputs (2)")
      @@ (\h0F13 :> "General Purpose Outputs (3)")
      @@ (\h0F14 :> "General Purpose Outputs (4)")
      @@ (\h0F15 :> "General Purpose Outputs (5)")
      @@ (\h0F16 :> "General Purpose Outputs (6)")
      @@ (\h0F17 :> "General Purpose Outputs (7)")
      @@ (\h0F18 :> "General Purpose Inputs (0)")
      @@ (\h0F19 :> "General Purpose Inputs (1)")
      @@ (\h0F1A :> "General Purpose Inputs (2)")
      @@ (\h0F1B :> "General Purpose Inputs (3)")
      @@ (\h0F1C :> "General Purpose Inputs (4)")
      @@ (\h0F1D :> "General Purpose Inputs (5)")
      @@ (\h0F1E :> "General Purpose Inputs (6)")
      @@ (\h0F1F :> "General Purpose Inputs (7)")
      @@ (\h0F80 :> "User RAM (start)")
      @@ (\h0FFF :> "User RAM (end)")

\* The addresses ESC_desc_map has a decode function for.
DescMapAddrs ==
    {\h0000, \h0004, \h0120, \h0130, \h0134, \h0138, \h0139, \h0140, \h0220,
     \h0440, \h0800}

\* ESC_desc_map[addr](value)
ESC_desc_map(addr, value) ==
    CASE addr = \h0000 -> decode_ch2_1(value)
      [] addr = \h0004 -> decode_ch2_2(value)
      [] addr = \h0120 -> decode_ch2_20(value)
      [] addr = \h0130 -> decode_ch2_21(value)
      [] addr = \h0134 -> decode_al_status_code(value)
      [] addr = \h0138 -> decode_run_led_override(value)
      [] addr = \h0139 -> decode_err_led_override(value)
      [] addr = \h0140 -> decode_pdi_control(value)
      [] addr = \h0220 -> decode_al_event_req(value)
      [] addr = \h0440 -> decode_watchdog_status(value)
      [] addr = \h0800 -> decode_sync_manager_status(value)

(***************************************************************************)
(* get_reg_pretty_desc and get_packet_desc.  A description is the sequence *)
(* of the pieces the code appends to out_str; raised = TRUE stands for an  *)
(* exception leaving the function.                                         *)
(***************************************************************************)
Returned(pieces) == [raised |-> FALSE, out |-> pieces]

Raised == [raised |-> TRUE, out |-> <<>>]

get_reg_pretty_desc(addr, data) ==
    LET reg == <<"reg:" \o PyHex(addr)>> IN
    IF addr \notin DOMAIN REG_ADDR_TO_NAME
      THEN Returned(reg \o <<"(unknown register)">>)
      ELSE LET named == reg \o <<"(", REG_ADDR_TO_NAME[addr], ")">> IN
           IF data = <<>> THEN Returned(named)
           ELSE LET valued == named \o <<", data:0x" \o BytesHex(data)>> IN
                IF addr \in DescMapAddrs
                  THEN LET decoded == ESC_desc_map(addr, int_from_bytes(data)) IN
                       IF decoded.ok
                         THEN Returned(valued \o <<"(" \o decoded.text \o ")">>)
                         ELSE Raised
                  ELSE Returned(valued \o <<"(no description)">>)

\* The match on packet.m_act, process.py:209-215
DescribeAction(packet) ==
    CASE packet.m_act = "READ_WAIT" ->
           get_reg_pretty_desc(packet.m_addr, packet.s_resp_val)
      [] packet.m_act = "WRITE" ->
           get_reg_pretty_desc(packet.m_addr, packet.m_data)
      [] OTHER -> Returned(<<"(no description)">>)

\* [raised, rst]: the Result returned, unless an exception left the function.
get_packet_desc(rst_packet) ==
    IF ~rst_packet.ok THEN [raised |-> FALSE, rst |-> rst_packet]
    ELSE LET packet == rst_packet.val
             reg == DescribeAction(packet)
             al == ESC_desc_map(\h0220, int_from_bytes(packet.al_intp_req_val))
         IN IF reg.raised \/ ~al.ok
              THEN [raised |-> TRUE, rst |-> rst_packet]
              ELSE [raised |-> FALSE,
                    rst |-> Ok(<<"mcu ", packet.m_act, " ">> \o reg.out
                                 \o <<", when AL event", "(" \o al.text \o ")">>)]

(***************************************************************************)
(* aggregate_stream                                                        *)
(***************************************************************************)
NoneTime == 0 - 1

UsToNs == 1000

SameGroup_flipped(t, lt, th) == t - lt >= th * UsToNs

SameGroup_strict(t, lt, th) == t - lt < th * UsToNs

\* process.py:39  row["time"] - last_time <= np.timedelta64(threshold, "us")
SameGroup(t, lt, th) == t - lt <= th * UsToNs

\* The pipeline stages are not running.
PipeIdle ==
    /\ pc = "off"
    /\ cur_group = <<>>
    /\ raw = NoItem
    /\ pkt = NoItem
    /\ desc = NoItem
    /\ ignore_addrs = {}
    /\ out = NoOut
    /\ pulled = 0
    /\ log = <<>>

InitAggregate ==
    /\ rows = <<>>
    /\ threshold \in Thresholds
    /\ group = <<>>
    /\ last_time = NoneTime
    /\ emitted = <<>>
    /\ agg_pc = "run"
    /\ PipeIdle

\* One iteration of the for loop over rows (process.py:35-44).
AggregateRow ==
    /\ agg_pc = "run"
    /\ Len(rows) < MaxRows
    /\ \E t \in Times :
         LET row == [Id |-> Len(rows) + 1, time |-> t] IN
         /\ rows' = Append(rows, row)
         /\ IF group = <<>>
              THEN /\ group' = <<row>>
                   /\ emitted' = emitted
              ELSE IF SameGroup(row.time, last_time, threshold)
                     THEN /\ group' = Append(group, row)
                          /\ emitted' = emitted
                     ELSE /\ emitted' = Append(emitted, group)
                          /\ group' = <<row>>
         /\ last_time' = row.time
    /\ UNCHANGED <<threshold, agg_pc>>
    /\ UNCHANGED pipeVars

\* Input exhausted (process.py:45-46).
AggregateExhaust ==
    /\ agg_pc = "run"
    /\ emitted' = IF group # <<>> THEN Append(emitted, group) ELSE emitted
    /\ agg_pc' = "done"
    /\ UNCHANGED <<rows, threshold, group, last_time>>
    /\ UNCHANGED pipeVars

NextAggregate == AggregateRow \/ AggregateExhaust

SpecAggregate == InitAggregate /\ [][NextAggregate]_vars

(***************************************************************************)
(* The pipeline of __main__.py, pulled one group at a time                 *)
(***************************************************************************)
AggregateIdle ==
    /\ rows = <<>>
    /\ threshold = 0
    /\ group = <<>>
    /\ last_time = NoneTime
    /\ emitted = <<>>
    /\ agg_pc = "off"

Row(mosi, miso) == [MISO |-> miso, MOSI |-> mosi]

\* The samples offered to the pipeline: the header and payload bytes of
\* accesses to registers 0x0138, 0x0018 and 0x0000, an empty field and a
\* field that is no hexadecimal number.
Samples ==
    {Row(<<"0", "9">>, <<"0", "0">>),
     Row(<<"C", "4">>, <<"0", "1">>),
     Row(<<"c", "2">>, <<"8", "0">>),
     Row(<<"0", "0">>, <<"0", "0">>),
     Row(<<"0", "1">>, <<"0", "1">>),
     Row(<<>>, <<"0", "0">>),
     Row(<<"0", "0">>, <<"0", "g">>)}

\* The non-empty groups of at most maxlen samples.
Groups(maxlen) == UNION {[1 .. n -> Samples] : n \in 1 .. maxlen}

IgnoreSets == {{}, {\h0000}, {\h0138}}

Init ==
    /\ AggregateIdle
    /\ pc = "pull"
    /\ cur_group = <<>>
    /\ raw = NoItem
    /\ pkt = NoItem
    /\ desc = NoItem
    /\ ignore_addrs \in IgnoreSets
    /\ out = NoOut
    /\ pulled = 0
    /\ log = <<>>

\* The main loop asks for the next item and the aggregator yields a group.
Pull ==
    /\ pc = "pull"
    /\ pulled < MaxGroups
    /\ \E g \in Groups(MaxGroupLen) : cur_group' = g
    /\ pulled' = pulled + 1
    /\ pc' = "transform"
    /\ UNCHANGED <<raw, pkt, desc, out, ignore_addrs, log>>
    /\ UNCHANGED aggVars

\* The input is exhausted: the for loop ends and the program exits.
Exhaust ==
    /\ pc = "pull"
    /\ pc' = "exit"
    /\ UNCHANGED <<cur_group, raw, pkt, desc, ignore_addrs, out, pulled, log>>
    /\ UNCHANGED aggVars

\* packet_transform yields the Result for the group.
Transform ==
    /\ pc = "transform"
    /\ raw' = packet_transform(cur_group)
    /\ pc' = "decode"
    /\ UNCHANGED <<cur_group, pkt, desc, ignore_addrs, out, pulled, log>>
    /\ UNCHANGED aggVars

\* make_gen(new_ESC_raw_packet_to_ESC_packet)
Decode ==
    /\ pc = "decode"
    /\ pkt' = ESC_raw_packet_to_ESC_packet(raw, ignore_addrs)
    /\ pc' = "describe"
    /\ UNCHANGED <<cur_group, raw, desc, ignore_addrs, out, pulled, log>>
    /\ UNCHANGED aggVars

\* make_gen(get_packet_desc): an exception raised inside the generator is
\* caught nowhere and ends the program with a traceback.
Describe ==
    /\ pc = "describe"
    /\ LET r == get_packet_desc(pkt) IN
       IF r.raised
         THEN /\ pc' = "aborted"
              /\ desc' = desc
         ELSE /\ pc' = "present"
              /\ desc' = r.rst
    /\ UNCHANGED <<cur_group, raw, pkt, ignore_addrs, out, pulled, log>>
    /\ UNCHANGED aggVars

\* The loop body printing every failure, whatever its reason.
PresentOutput_verbose(rst_packet_str) ==
    IF ~rst_packet_str.ok
      THEN [kind |-> "diagnostic",
            text |-> <<"Failed to decode packet. Reason: ",
                       ExcStr(rst_packet_str.err)>>]
      ELSE [kind |-> "line", text |-> rst_packet_str.val]

\* The body of the for loop of __main__.py.
PresentOutput(rst_packet_str) ==
    IF ~rst_packet_str.ok
      THEN IF ExcStr(rst_packet_str.err) # ""
             THEN [kind |-> "diagnostic",
                   text |-> <<"Failed to decode packet. Reason: ",
                              ExcStr(rst_packet_str.err)>>]
             ELSE Silence
      ELSE [kind |-> "line", text |-> rst_packet_str.val]

Present ==
    /\ pc = "present"
    /\ out' = PresentOutput(desc)
    /\ log' = Append(log, PresentOutput(desc).kind)
    /\ pc' = "printed"
    /\ UNCHANGED <<cur_group, raw, pkt, desc, ignore_addrs, pulled>>
    /\ UNCHANGED aggVars

\* The loop body ends (continue, or after print) and its locals are dropped.
NextIteration ==
    /\ pc = "printed"
    /\ pc' = "pull"
    /\ cur_group' = <<>>
    /\ raw' = NoItem
    /\ pkt' = NoItem
    /\ desc' = NoItem
    /\ out' = NoOut
    /\ UNCHANGED <<ignore_addrs, pulled, log>>
    /\ UNCHANGED aggVars

Next ==
    Pull \/ Exhaust \/ Transform \/ Decode \/ Describe \/ Present
      \/ NextIteration

Spec == Init /\ [][Next]_vars

(***************************************************************************)
(* The decoder and the stages after it, applied to one Raw Packet          *)
(***************************************************************************)
Byte0Set == {\h00, \h09, \hAA}

Byte1Set == (0 .. 7) \cup {\h34, \hC2, \hC3, \hC4}

PayloadBytes == {\h00, \h01}

MisoBytes == {\h00, \h81}

\* MOSI bytes of n samples: the two header bytes, then payload bytes.
MosiSeqs(n) ==
    {SubSeq(<<h[1], h[2]>> \o pl, 1, n) :
        h \in Byte0Set \X Byte1Set, pl \in [1 .. n - 2 -> PayloadBytes]}

\* What packet_transform can hand to the decoder: a failure, or MISO and
\* MOSI bytes of the same length, one byte per sample of the group.
RawPackets(maxlen) ==
    UNION {{[MISOs |-> mi, MOSIs |-> mo] :
               mi \in [1 .. n -> MisoBytes], mo \in MosiSeqs(n)} :
           n \in 1 .. maxlen}

RawResults(maxlen) ==
    {Error(EmptyFieldError), Error(InvalidLiteralError), Error(ByteRangeError)}
      \cup {Ok(p) : p \in RawPackets(maxlen)}

InitDecode ==
    /\ AggregateIdle
    /\ pc = "decode"
    /\ cur_group = <<>>
    /\ raw \in RawResults(MaxPacketLen)
    /\ pkt = NoItem
    /\ desc = NoItem
    /\ ignore_addrs \in IgnoreSets
    /\ out = NoOut
    /\ pulled = 1
    /\ log = <<>>

NextDecode == Decode \/ Describe \/ Present

SpecDecode == InitDecode /\ [][NextDecode]_vars

(***************************************************************************)
(* Claims about aggregate_stream (checked under SpecAggregate)             *)
(***************************************************************************)
RECURSIVE Concat(_)
Concat(gs) == IF gs = <<>> THEN <<>> ELSE Head(gs) \o Concat(Tail(gs))

Monotone(rs) == \A i \in 1 .. Len(rs) - 1 : rs[i].time <= rs[i + 1].time

StrictlyIncreasing(rs) == \A i \in 1 .. Len(rs) - 1 : rs[i].time < rs[i + 1].time

AllSingletons ==
    /\ \A k \in 1 .. Len(emitted) : Len(emitted[k]) = 1
    /\ Len(group) <= 1

\* C3: the emitted groups, followed by the still-open group, are the input
\* consumed so far in order (after exhaustion the emitted groups alone are the
\* whole input); every emitted group is non-empty; adjacent samples of one
\* group are at most threshold apart, and the last sample of a group and the
\* first of the next are more than threshold apart.
C3_Partition ==
    /\ Concat(emitted) \o (IF agg_pc = "run" THEN group ELSE <<>>) = rows
    /\ agg_pc = "done" => Concat(emitted) = rows
    /\ \A k \in 1 .. Len(emitted) : emitted[k] # <<>>
    /\ \A k \in 1 .. Len(emitted) : \A i \in 1 .. Len(emitted[k]) - 1 :
           emitted[k][i + 1].time - emitted[k][i].time <= threshold * 1000
    /\ \A k \in 1 .. Len(emitted) - 1 :
           emitted[k + 1][1].time - emitted[k][Len(emitted[k])].time > threshold * 1000

\* A finished run with several groups, one of which spans more than the
\* threshold from its first to its last sample.
C3_Witness ==
    /\ agg_pc = "done"
    /\ Len(emitted) >= 2
    /\ \E k \in 1 .. Len(emitted) :
           /\ Len(emitted[k]) >= 3
           /\ emitted[k][Len(emitted[k])].time - emitted[k][1].time > threshold * 1000

\* C10 as stated: with a zero or negative threshold every group holds exactly
\* one sample, for every input with non-decreasing timestamps.
C10_Original == (threshold <= 0 /\ Monotone(rows)) => AllSingletons

\* C10 amended: with a negative threshold every group holds exactly one sample
\* for every input with non-decreasing timestamps; with a zero threshold that
\* holds when the timestamps are strictly increasing, and in general a zero
\* threshold yields one group per distinct timestamp.
C10_Degenerate ==
    /\ (threshold < 0 /\ Monotone(rows)) => AllSingletons
    /\ (threshold = 0 /\ StrictlyIncreasing(rows)) => AllSingletons
    /\ (threshold = 0 /\ Monotone(rows) /\ agg_pc = "done") =>
           Len(emitted) = Cardinality({rows[i].time : i \in 1 .. Len(rows)})

\* A finished run with a negative threshold over an input that repeats a
\* timestamp, every sample in a group of its own.
C10_Witness ==
    /\ agg_pc = "done"
    /\ threshold < 0
    /\ Len(rows) >= 3
    /\ Monotone(rows)
    /\ \E i \in 1 .. Len(rows) - 1 : rows[i].time = rows[i + 1].time
    /\ Len(emitted) = Len(rows)

(***************************************************************************)
(* Claims about the Protocol Decoder and the stages after it (checked      *)
(* under SpecDecode)                                                       *)
(***************************************************************************)
\* The decoder has returned its Result for raw.
Decoded == pc \in {"describe", "present", "printed", "aborted"}

\* get_packet_desc has run on pkt (and returned or raised).
DescribeDone == pc \in {"present", "printed", "aborted"}

MOSIs == raw.val.MOSIs

MISOs == raw.val.MISOs

\* b is a, back to front
IsReverse(a, b) ==
    /\ Len(a) = Len(b)
    /\ \A i \in 1 .. Len(a) : b[i] = a[Len(a) + 1 - i]

\* C1 as stated: the address of a decoded packet is the first two MOSI bytes
\* read as a little-endian 16-bit integer, shifted right by 3, and has 13 bits.
C1_Original ==
    pkt.ok =>
        /\ pkt.val.m_addr = (MOSIs[1] + MOSIs[2] * 256) \div 8
        /\ pkt.val.m_addr \in 0 .. 8191

\* C1 amended: the address of a decoded packet is the first two MOSI bytes
\* read as a big-endian 16-bit integer (first byte most significant), shifted
\* right by 3, and has 13 bits; MOSI bytes 0xAA, 0x34 give WRITE and 0x1546.
C1_Address ==
    pkt.ok =>
        /\ Len(MOSIs) >= 2
        /\ pkt.val.m_addr = (MOSIs[1] * 256 + MOSIs[2]) \div 8
        /\ pkt.val.m_addr \in 0 .. 8191
        /\ (MOSIs[1] = 170 /\ MOSIs[2] = 52) =>
               (pkt.val.m_act = "WRITE" /\ pkt.val.m_addr = 5446)

\* The packet of the spec's example, MOSI bytes 0xAA, 0x34, decoded.
C1_Witness ==
    /\ Decoded
    /\ pkt.ok
    /\ MOSIs[1] = 170
    /\ MOSIs[2] = 52
    /\ pkt.val.m_addr # (MOSIs[1] + MOSIs[2] * 256) \div 8

\* C4: a decoded READ has response_value = reverse(miso[2:]), a READ_WAIT
\* reverse(miso[3:]) (5 MISO bytes give 2 response bytes), a WRITE has
\* data = reverse(mosi[2:]), and al_event_snapshot = reverse(miso[0:2]).
C4_Payload ==
    pkt.ok =>
        /\ pkt.val.m_act = "READ" =>
               IsReverse(SubSeq(MISOs, 3, Len(MISOs)), pkt.val.s_resp_val)
        /\ pkt.val.m_act = "READ_WAIT" =>
               /\ IsReverse(SubSeq(MISOs, 4, Len(MISOs)), pkt.val.s_resp_val)
               /\ Len(MISOs) = 5 => Len(pkt.val.s_resp_val) = 2
        /\ pkt.val.m_act = "WRITE" =>
               IsReverse(SubSeq(MOSIs, 3, Len(MOSIs)), pkt.val.m_data)
        /\ IsReverse(SubSeq(MISOs, 1, 2), pkt.val.al_intp_req_val)
        /\ Len(pkt.val.al_intp_req_val) = 2

\* A READ_WAIT of 5 samples whose two response bytes differ, decoded.
C4_Witness ==
    /\ Decoded
    /\ pkt.ok
    /\ pkt.val.m_act = "READ_WAIT"
    /\ Len(MISOs) = 5
    /\ pkt.val.s_resp_val = <<MISOs[5], MISOs[4]>>
    /\ MISOs[4] # MISOs[5]

\* C6 as stated: data is non-empty only for WRITE, response_value only for
\* READ or READ_WAIT, and exactly one of the two is non-empty.
C6_Original ==
    pkt.ok =>
        /\ pkt.val.m_data # <<>> => pkt.val.m_act = "WRITE"
        /\ pkt.val.s_resp_val # <<>> => pkt.val.m_act \in {"READ", "READ_WAIT"}
        /\ (pkt.val.m_data # <<>>) # (pkt.val.s_resp_val # <<>>)

\* C6 amended: data is non-empty only for WRITE, response_value only for READ
\* or READ_WAIT, and at most one of the two is non-empty; both are empty
\* exactly when the packet has no payload bytes (a READ or WRITE of 2 samples,
\* a READ_WAIT of 2 or 3 samples).
C6_Exclusive ==
    pkt.ok =>
        /\ pkt.val.m_data # <<>> => pkt.val.m_act = "WRITE"
        /\ pkt.val.s_resp_val # <<>> => pkt.val.m_act \in {"READ", "READ_WAIT"}
        /\ ~(pkt.val.m_data # <<>> /\ pkt.val.s_resp_val # <<>>)
        /\ (pkt.val.m_data = <<>> /\ pkt.val.s_resp_val = <<>>) <=>
               \/ pkt.val.m_act \in {"READ", "WRITE"} /\ Len(MOSIs) = 2
               \/ pkt.val.m_act = "READ_WAIT" /\ Len(MISOs) <= 3

\* A WRITE of 2 samples decoded to a packet with neither data nor response.
C6_Witness ==
    /\ Decoded
    /\ pkt.ok
    /\ pkt.val.m_act = "WRITE"
    /\ Len(MOSIs) = 2
    /\ pkt.val.m_data = <<>>
    /\ pkt.val.s_resp_val = <<>>

\* C9: an upstream failure is returned unchanged; else fewer than 2 MOSI bytes
\* fail with "packet too short"; else an action code outside {0,2,3,4,6} fails
\* with "invalid ESC action"; else an address in the ignore-set gives the
\* empty-reason failure; else NOP and ADDR_EXT fail with "unsupported ESC
\* action"; else the packet is Ok with action READ, READ_WAIT or WRITE.
C9_Priority ==
    Decoded =>
        IF ~raw.ok THEN pkt = raw
        ELSE IF Len(MOSIs) < 2
          THEN ~pkt.ok /\ pkt.err.msg = "Packet too short, may lose data during sampling"
        ELSE IF MOSIs[2] % 8 \notin {0, 2, 3, 4, 6}
          THEN ~pkt.ok /\ pkt.err.msg = "Invalid ESC action in MOSI data"
        ELSE IF (MOSIs[1] * 256 + MOSIs[2]) \div 8 \in ignore_addrs
          THEN ~pkt.ok /\ pkt.err.msg = ""
        ELSE IF MOSIs[2] % 8 = 0
          THEN ~pkt.ok /\ pkt.err.msg = "Unsupported ESC action: ESC_action.NOP"
        ELSE IF MOSIs[2] % 8 = 6
          THEN ~pkt.ok /\ pkt.err.msg = "Unsupported ESC action: ESC_action.ADDR_EXT"
        ELSE /\ pkt.ok
             /\ MOSIs[2] % 8 = 2 => pkt.val.m_act = "READ"
             /\ MOSIs[2] % 8 = 3 => pkt.val.m_act = "READ_WAIT"
             /\ MOSIs[2] % 8 = 4 => pkt.val.m_act = "WRITE"

\* A NOP addressed to a register of the ignore-set: suppressed, not reported
\* as unsupported.
C9_Witness ==
    /\ Decoded
    /\ raw.ok
    /\ Len(MOSIs) >= 2
    /\ MOSIs[2] % 8 = 0
    /\ (MOSIs[1] * 256 + MOSIs[2]) \div 8 \in ignore_addrs
    /\ ~pkt.ok
    /\ pkt.err.msg = ""

\* raw carries an address: a Raw Packet with both header bytes and an action
\* code the decoder accepts.
HasAddress ==
    /\ raw.ok
    /\ Len(MOSIs) >= 2
    /\ MOSIs[2] % 8 \in {0, 2, 3, 4, 6}

Ignored == HasAddress /\ (MOSIs[1] * 256 + MOSIs[2]) \div 8 \in ignore_addrs

\* C5: a raw packet whose address is in the ignore-set decodes to the
\* empty-reason failure, get_packet_desc forwards that failure unchanged and
\* the main loop prints nothing for it; a failure with a non-empty reason is
\* printed as a diagnostic carrying the reason.
C5_Suppression ==
    /\ (Decoded /\ Ignored) =>
           /\ pkt = [ok |-> FALSE, err |-> [cls |-> "EmptyException", msg |-> ""]]
           /\ pc # "aborted"
    /\ (pc \in {"present", "printed"} /\ Ignored) => desc = pkt
    /\ (pc = "printed" /\ Ignored) =>
           /\ out.kind = "silence"
           /\ out.text = <<>>
           /\ log[Len(log)] = "silence"
    /\ (pc = "printed" /\ ~desc.ok /\ desc.err.msg # "") =>
           /\ out.kind = "diagnostic"
           /\ out.text = <<"Failed to decode packet. Reason: ", desc.err.msg>>

\* A WRITE to address 0x0, which is in the ignore-set, has gone through the
\* main loop and nothing was printed.
C5_Witness ==
    /\ pc = "printed"
    /\ Ignored
    /\ MOSIs[1] = 0
    /\ MOSIs[2] = 4
    /\ 0 \in ignore_addrs
    /\ out.kind = "silence"

\* C8: for every packet the decoder decodes, get_packet_desc returns one
\* non-empty description that holds the action name, then the register's name
\* or "(unknown register)" for the packet's address, and ends with the
\* AL-event clause.
C8_Description ==
    (DescribeDone /\ pkt.ok) =>
        /\ pc # "aborted"
        /\ desc.ok
        /\ Len(desc.val) >= 5
        /\ desc.val[2] = pkt.val.m_act
        /\ \E i \in 3 .. Len(desc.val) - 2 :
               IF pkt.val.m_addr \in DOMAIN REG_ADDR_TO_NAME
                 THEN desc.val[i] = REG_ADDR_TO_NAME[pkt.val.m_addr]
                 ELSE desc.val[i] = "(unknown register)"
        /\ desc.val[Len(desc.val) - 1] = ", when AL event"

\* The payload handed to get_reg_pretty_desc for a decoded packet.
Payload ==
    IF pkt.val.m_act = "WRITE" THEN pkt.val.m_data ELSE pkt.val.s_resp_val

\* The decoded packet is an access get_packet_desc describes through
\* ESC_desc_map: a READ_WAIT or WRITE with payload to a registered address.
RegisterDecoded ==
    /\ pkt.ok
    /\ pkt.val.m_act \in {"READ_WAIT", "WRITE"}
    /\ pkt.val.m_addr \in DescMapAddrs
    /\ Payload # <<>>

\* value does not fit the register at addr: one byte for the LED overrides,
\* the AL status code, the watchdog and the SyncManager status, 16 bits for
\* PDI Control, AL Control and AL Status (both masked with 0x000F), 32 bits
\* for the Identification and Revision dumps (08X) and AL Event Request.
OutOfWidth(addr, value) ==
    CASE addr \in {\h0134, \h0138, \h0139, \h0440, \h0800} -> value > ByteMax
      [] addr \in {\h0120, \h0130, \h0140} -> value > WordMax
      [] OTHER -> ~WithinDword(value)

\* C11: each of the eleven decode functions of ESC_desc_map fails, and no
\* description is returned, when the value it is given does not fit the
\* register's width.
C11_WidthValidation ==
    (DescribeDone /\ RegisterDecoded
        /\ OutOfWidth(pkt.val.m_addr, int_from_bytes(Payload))) =>
        /\ ~ESC_desc_map(pkt.val.m_addr, int_from_bytes(Payload)).ok
        /\ pc = "aborted"

\* The integer get_packet_desc hands to the AL Event Request decode function.
AlEventValue == int_from_bytes(pkt.val.al_intp_req_val)

\* C13: a packet decoded from a raw packet with MISO and MOSI of the same
\* length >= 2 has an al_event_snapshot of exactly 2 bytes; the integer handed
\* to the AL Event Request decode function is miso[0] + 256 * miso[1], below
\* 2^16; so that function's 32-bit assertion holds, get_packet_desc raises
\* only when the register's own decode function does, and the AL-event clause
\* reports nothing for bits 16..23 (SyncManager 8..15).
C13_AlEvent ==
    (Decoded /\ pkt.ok) =>
        /\ Len(MISOs) = Len(MOSIs)
        /\ Len(MISOs) >= 2
        /\ Len(pkt.val.al_intp_req_val) = 2
        /\ AlEventValue = MISOs[1] + 256 * MISOs[2]
        /\ AlEventValue <= WordMax
        /\ decode_al_event_req(AlEventValue).ok
        /\ \A i \in 16 .. 23 : Bit(AlEventValue, i) = 0
        /\ AlEventBits(AlEventValue, 16) = ""
        /\ pc = "aborted" => DescribeAction(pkt.val).raised
        /\ pc \in {"present", "printed"} =>
               /\ desc.ok
               /\ desc.val[Len(desc.val)]
                      = "(" \o AlEventBits(AlEventValue, 0) \o ")"

\* A packet whose first two MISO bytes are 0x00 and 0x81 has been described:
\* the clause reports the interrupts of SyncManager 0 and SyncManager 7.
C13_Witness ==
    /\ pc = "present"
    /\ pkt.ok
    /\ MISOs[1] = 0
    /\ MISOs[2] = 129
    /\ AlEventValue = 33024
    /\ desc.ok
    /\ desc.val[Len(desc.val)]
           = "(SyncManager 0 interrupt pending, SyncManager 7 interrupt pending, )"

(***************************************************************************)
(* Claims about the whole pipeline (checked under Spec)                    *)
(***************************************************************************)
\* packet_transform has yielded its Result for cur_group.
Transformed == pc \in {"decode", "describe", "present", "printed", "aborted"}

\* The group in flight has not reached the main loop yet.
InFlight == pc \in {"transform", "decode", "describe", "present"}

HexDigitValue ==
    ("0" :> 0) @@ ("1" :> 1) @@ ("2" :> 2) @@ ("3" :> 3) @@ ("4" :> 4)
      @@ ("5" :> 5) @@ ("6" :> 6) @@ ("7" :> 7) @@ ("8" :> 8) @@ ("9" :> 9)
      @@ ("a" :> 10) @@ ("b" :> 11) @@ ("c" :> 12) @@ ("d" :> 13)
      @@ ("e" :> 14) @@ ("f" :> 15) @@ ("A" :> 10) @@ ("B" :> 11)
      @@ ("C" :> 12) @@ ("D" :> 13) @@ ("E" :> 14) @@ ("F" :> 15)

TwoHexDigits(f) ==
    /\ Len(f) = 2
    /\ f[1] \in DOMAIN HexDigitValue
    /\ f[2] \in DOMAIN HexDigitValue

TwoDigitValue(f) == 16 * HexDigitValue[f[1]] + HexDigitValue[f[2]]

Unparsable(f) == f = <<>> \/ \E i \in 1 .. Len(f) : f[i] \notin DOMAIN HexDigitValue

\* C2: every group pulled yields exactly one outcome (description or failure)
\* to the main loop, in order, and the pipeline goes on to the next group
\* after any failure: no failure ends the run.
C2_PerPacket ==
    /\ pc # "aborted"
    /\ InFlight => Len(log) = pulled - 1
    /\ pc \in {"printed", "pull", "exit"} => Len(log) = pulled

\* C7: packet_transform yields one Result per group; for a group of N samples
\* whose fields are all two hex digits it is Ok with N MISO bytes and N MOSI
\* bytes, byte i the value of sample i's field; a group with an empty or
\* unparsable field yields a failure; the groups before it, failed or not, do
\* not change that.
C7_Assembler ==
    /\ pc \in {"pull", "transform", "exit"} => raw = NoItem
    /\ Transformed => raw # NoItem
    /\ (Transformed /\ \A i \in 1 .. Len(cur_group) :
            TwoHexDigits(cur_group[i].MISO) /\ TwoHexDigits(cur_group[i].MOSI)) =>
           /\ raw.ok
           /\ Len(raw.val.MISOs) = Len(cur_group)
           /\ Len(raw.val.MOSIs) = Len(cur_group)
           /\ \A i \in 1 .. Len(cur_group) :
                  /\ raw.val.MISOs[i] = TwoDigitValue(cur_group[i].MISO)
                  /\ raw.val.MOSIs[i] = TwoDigitValue(cur_group[i].MOSI)
    /\ (Transformed /\ \E i \in 1 .. Len(cur_group) :
            Unparsable(cur_group[i].MISO) \/ Unparsable(cur_group[i].MOSI)) =>
           ~raw.ok
    /\ pc # "aborted" =>
           Len(log) = IF InFlight THEN pulled - 1 ELSE pulled

\* The second group, of valid samples in upper and lower case, assembled
\* after the first group ended in a diagnostic.
C7_Witness ==
    /\ pc = "decode"
    /\ pulled = 2
    /\ log = <<"diagnostic">>
    /\ raw.ok
    /\ raw.val.MOSIs = <<9, 196, 194>>
    /\ raw.val.MISOs = <<0, 1, 128>>

\* The first two samples of cur_group carry a header: their MOSI fields are
\* two hex digits each.
GroupHasHeader ==
    /\ Len(cur_group) >= 2
    /\ TwoHexDigits(cur_group[1].MOSI)
    /\ TwoHexDigits(cur_group[2].MOSI)

\* The register address and the action code in the header of cur_group.
GroupAddr ==
    (TwoDigitValue(cur_group[1].MOSI) * 256 + TwoDigitValue(cur_group[2].MOSI))
        \div 8

GroupActionCode == TwoDigitValue(cur_group[2].MOSI) % 8

\* cur_group is addressed to a register of the ignore-set.
GroupIgnored == GroupHasHeader /\ GroupAddr \in ignore_addrs

\* A sample of cur_group has a field that is empty or no hexadecimal number.
GroupMalformed ==
    \E i \in 1 .. Len(cur_group) :
        Unparsable(cur_group[i].MISO) \/ Unparsable(cur_group[i].MOSI)

\* The header of cur_group has an action code outside {0, 2, 3, 4, 6}.
GroupMisframed == GroupActionCode \notin {0, 2, 3, 4, 6}

\* C12 as stated: a group addressed to a register of the ignore-set that also
\* has a malformed sample or a framing error is delivered as the silent
\* empty-reason suppression, not as the hex or framing failure.
C12_Original ==
    (pc = "printed" /\ GroupIgnored /\ (GroupMalformed \/ GroupMisframed)) =>
        out.kind = "silence"

\* C12 amended: for a group addressed to a register of the ignore-set, a
\* malformed sample is delivered as the hex-parse diagnostic and an invalid
\* action code as the "invalid ESC action" diagnostic; the suppression is
\* silent otherwise and masks only what is detected after the ignore-set is
\* consulted: an unsupported action (NOP, ADDR_EXT) and a payload the
\* register's decode function would reject, so such a group never ends the
\* run.
C12_Masking ==
    /\ (Transformed /\ GroupIgnored) => pc # "aborted"
    /\ (pc = "printed" /\ GroupIgnored) =>
           IF GroupMalformed
             THEN /\ ~raw.ok
                  /\ desc = raw
                  /\ out.kind = "diagnostic"
                  /\ out.text = <<"Failed to decode packet. Reason: ", raw.err.msg>>
                  /\ raw.err.msg # ""
             ELSE IF GroupMisframed
               THEN /\ out.kind = "diagnostic"
                    /\ out.text = <<"Failed to decode packet. Reason: ",
                                    "Invalid ESC action in MOSI data">>
               ELSE /\ out.kind = "silence"
                    /\ out.text = <<>>
                    /\ desc = Error(EmptyException)

\* A WRITE to 0x0138, which is in the ignore-set, with a malformed sample
\* after the header has gone through the main loop and was reported with a
\* diagnostic.
C12_Witness ==
    /\ pc = "printed"
    /\ GroupIgnored
    /\ GroupMalformed
    /\ GroupAddr = 312
    /\ GroupActionCode = 4
    /\ out.kind = "diagnostic"

====
